---- MODULE Spec2Model ----
(***************************************************************************)
(* The client-side playlist synchronisation of the chat widget: the state  *)
(* of the Playlist component (typed-event variant), its pl_response        *)
(* handler, the effects React runs after a commit, and the requests the    *)
(* component emits through PlaylistContext.                                *)
(*                                                                         *)
(* React applies the setState calls of a socket callback in a batch and    *)
(* re-renders later; useEffect callbacks run after that commit.  A handler *)
(* action below therefore updates the state variables at once (updater     *)
(* functions compose in call order) but leaves currentPlaylistRef alone:   *)
(* the ref is written only by the effect of lines 42-44, in Render.        *)
(***************************************************************************)
EXTENDS Integers, Sequences, FiniteSets, TLC

\* ---------------------------------------------------------------- bounds
MaxCount == 2      \* optimistic increments stop at this count
MaxOps   == 2      \* server-side mutations in SpecSrv
MaxNet   == 2      \* responses in flight at once in SpecSrv
MaxSockets == 2    \* sockets the provider creates in SpecSub
MaxSubs  == 3      \* onPlaylistResponse calls in SpecSub
MaxLen   == 3      \* characters of a song text in SpecParse
MaxSongs == 2      \* song texts of a `songs` response in SpecParse

Names == {"A", "B"}
NoName == ""
\* A response without `data`: JavaScript's undefined, equal to no string.
NoData == "undefined"
Truthy(x) == x \notin {NoName, NoData}

\* Song texts on the wire, as character sequences.
SongStrs == { <<"a", " ", ":", " ", "b">>, <<" ", "c">> }

Range(s) == { s[i] : i \in 1..Len(s) }

SeqsUpTo(S, n) == UNION { [1..k -> S] : k \in 0..n }

\* The sequences that list members of S at most once each.
DistinctSeqs(S) == { l \in SeqsUpTo(S, Cardinality(S)) :
                       \A i, j \in 1..Len(l) : i # j => l[i] # l[j] }

\* What the user types, as character sequences: nothing, blanks only, or a
\* name or a song with blanks around it.
NameTexts == { <<>>, <<" ">>, <<" ", "A", " ">>, <<"B">> }
SongTexts == SongStrs \cup { <<>>, <<" ">> }

\* The string a character sequence spells.
RECURSIVE Str(_)
Str(t) == IF t = <<>> THEN "" ELSE t[1] \o Str(Tail(t))

\* `songs` payloads: a playlist holds a song text at most once.
SongLists == DistinctSeqs(SongStrs)

\* Catalogs: playlist names are unique.
NameLists == DistinctSeqs(Names)

\* --------------------------------------------------------- song parsing
IsSpace(c) == c = " "

RECURSIVE TrimStart(_)
TrimStart(s) == IF s # <<>> /\ IsSpace(Head(s)) THEN TrimStart(Tail(s)) ELSE s

RECURSIVE TrimEnd(_)
TrimEnd(s) ==
  IF s # <<>> /\ IsSpace(s[Len(s)]) THEN TrimEnd(SubSeq(s, 1, Len(s) - 1)) ELSE s

Trim(s) == TrimEnd(TrimStart(s))

\* s.lastIndexOf(":") in the place of line 54's indexOf: the last colon.
LastIndexOfColon(s) ==
  IF \E i \in 1..Len(s) : s[i] = ":"
  THEN CHOOSE i \in 1..Len(s) : s[i] = ":" /\ \A j \in (i + 1)..Len(s) : s[j] # ":"
  ELSE 0
\* s.indexOf(":"), 1-based; 0 stands for JavaScript's -1.
IndexOfColon(s) ==
  IF \E i \in 1..Len(s) : s[i] = ":"
  THEN CHOOSE i \in 1..Len(s) : s[i] = ":" /\ \A j \in 1..(i - 1) : s[j] # ":"
  ELSE 0

ParseSong(s) ==
  LET colonIndex == IndexOfColon(s) IN
  IF colonIndex = 0
  THEN [artist |-> <<>>, title |-> Trim(s)]
  ELSE [artist |-> Trim(SubSeq(s, 1, colonIndex - 1)),
        title  |-> Trim(SubSeq(s, colonIndex + 1, Len(s)))]

ParseSongs(data) == [i \in 1..Len(data) |-> ParseSong(data[i])]

\* ------------------------------------------------------- count records
\* A Record<string, number> is a function whose domain is its key set.
CountOf(prev, name) == IF name \in DOMAIN prev THEN prev[name] ELSE 0

SetCount(prev, name, v) ==
  [k \in (DOMAIN prev) \cup {name} |-> IF k = name THEN v ELSE prev[k]]

\* Lines 142-148 without the delete of line 145: the key survives.
KeepCount(prev, name) == prev

DeleteCount(prev, name) == [k \in (DOMAIN prev) \ {name} |-> prev[k]]

\* Lines 74-76 without the pruning loop of line 78: stale keys survive.
SeedWithoutPrune(prev, playlistList) ==
  [k \in (DOMAIN prev) \cup Range(playlistList) |-> CountOf(prev, k)]

\* Lines 74-80: seed missing names with 0, drop names that left the catalog.
SeedAndPrune(prev, playlistList) ==
  [k \in Range(playlistList) |-> CountOf(prev, k)]

\* Lines 82-94: the selection a `playlists` event leaves, read through the ref.
SelectOnRefresh(ref, cur, playlistList) ==
  IF ref = NoName
  THEN IF Len(playlistList) > 0 THEN playlistList[1] ELSE cur
  ELSE IF ref \notin Range(playlistList)
       THEN IF Len(playlistList) > 0 THEN playlistList[1] ELSE NoName
       ELSE cur

\* Lines 88-94: the refresh clears the song list when the ref's playlist is gone.
SongsOnRefresh(ref, songs, playlistList) ==
  IF ref # NoName /\ ref \notin Range(playlistList) THEN <<>> ELSE songs

\* Line 138 without its comparison: any `deleted` event clears the selection.
ClearOnAnyDeleted(ref, cur, name) == NoName

\* Lines 138-139: a `deleted` event naming the ref's playlist clears the selection.
SelectOnDeleted(ref, cur, name) == IF name = ref THEN NoName ELSE cur

\* ------------------------------------------------------------ messages
Msg(ev, name, song) == [ev |-> ev, name |-> name, song |-> song]
\* PlaylistContext.tsx, lines 27-60: each command emits one message.
CreatePlaylist(name) == Msg("pl_create", name, <<>>)
SwitchPlaylist(name) == Msg("pl_switch", name, <<>>)
RemovePlaylist(name) == Msg("pl_remove_playlist", name, <<>>)
AddSong(song, name) == Msg("pl_add", name, song)
\* removeSong(artist, title), lines 47-50: the message names no playlist.
RemoveSong(artist, title) ==
  [ev |-> "pl_remove", name |-> NoData, song |-> <<>>,
   artist |-> artist, title |-> title]
ViewPlaylist(name) == Msg("pl_view", name, <<>>)
ViewPlaylists == Msg("pl_view_playlists", NoName, <<>>)

ViewedNames(msgs) == { msgs[i].name : i \in { j \in 1..Len(msgs) : msgs[j].ev = "pl_view" } }

\* An inbound pl_response: type, and the payload in the field of its shape.
\* `for` is the playlist a `songs` response was requested for; the wire
\* format does not carry it.
\* `object` tells whether the response is an object at all, `array` whether
\* the data of a `songs` or `playlists` response is an array, and `throws`
\* is set in the record of a handler call that ended in a TypeError.
Event(type, name, list, songs, for) ==
  [type |-> type, name |-> name, list |-> list, songs |-> songs, for |-> for,
   object |-> TRUE, array |-> TRUE, throws |-> FALSE]

NameEvent(type, name) == Event(type, name, <<>>, <<>>, NoName)
NoDataEvent(type) == NameEvent(type, NoData)

\* Malformed responses: null (or any non-object), and a `songs` or
\* `playlists` response whose data is missing.  A non-array kept in the
\* playlists hook is written NotAnArray.
NotAnArray == <<NoData>>
NullResponse == [NoDataEvent(NoData) EXCEPT !.object = FALSE]
NonArrayEvent(type) ==
  [Event(type, NoData, NotAnArray, <<>>, NoName) EXCEPT !.array = FALSE]

VARIABLES
  playlist,            \* useState<Song[]>        line 33
  playlists,           \* useState<string[]>      line 34
  currentPlaylist,     \* useState<string>        line 35
  playlistCounts,      \* useState<Record>        line 38
  currentPlaylistRef,  \* useRef, .current        line 41
  playlistName,        \* useState, name draft    line 36
  song,                \* useState, song draft    line 37
  emitted,             \* requests emitted by the last step, in order
  viewReqs,            \* names with a pl_view request sent to the server
  shownFor,            \* playlist the displayed song list was requested for
  last,                \* the event the last step handled
  scn,                 \* progress of "active playlist deleted, then refresh"
  onlyRefreshes,       \* every event so far was a `playlists` event
  stale,               \* responses in flight when the last `created` event arrived
  srvLists,            \* server: catalog
  srvSongs,            \* server: song texts of each playlist
  reqs,                \* requests the server has not answered yet
  net,                 \* responses in flight to the client
  ops,                 \* server mutations so far
  socket,              \* the socket of the provider, 0 for null
  listeners,           \* pl_response handlers registered with socket.on
  onPlaylistResponseRef, \* useSocketConnection: the callback kept, 0 for none
  provider,            \* which onPlaylistResponse the component is given
  mounted,             \* the Playlist component is mounted
  unsubscribe,         \* what the last onPlaylistResponse call returned
  subs,                \* onPlaylistResponse calls so far
  cancelled,           \* callbacks whose unsubscribe has been called
  invoked,             \* callbacks the last pl_response invoked
  threw                \* a call of unsubscribe threw

clientVars == <<playlist, playlists, currentPlaylist, playlistCounts, currentPlaylistRef>>
traceVars == <<emitted, viewReqs, shownFor, last, scn, onlyRefreshes, stale>>
srvVars == <<srvLists, srvSongs, reqs, net, ops>>
uiVars == <<playlistName, song>>
subVars == <<socket, listeners, onPlaylistResponseRef, provider, mounted,
             unsubscribe, subs, cancelled, invoked, threw>>
vars == <<clientVars, traceVars, srvVars, uiVars, subVars>>

NoScn == [name |-> NoName, stage |-> 0, fresh |-> FALSE]
NoStale == [name |-> NoName, pending |-> {}]

\* A handler registered on socket sock for the callback of subscription cb,
\* and the values onPlaylistResponse returns: () => {} (PlaylistContext.tsx
\* line 68), () => socket.off("pl_response", handler) (lines 77-79), and
\* nothing (part_003 line 110).
Listener(sock, cb) == [sock |-> sock, cb |-> cb]
NoOp == [kind |-> "noop", sock |-> 0, cb |-> 0]
\* Lines 77-79 returning a function that removes nothing.
ReturnNoOp(sock, cb) == NoOp
Off(sock, cb) == [kind |-> "off", sock |-> sock, cb |-> cb]
Undefined(cb) == [kind |-> "undefined", sock |-> 0, cb |-> cb]

\* After mount: the effects of lines 42-44, 162-166 and 169-172 have run once.
Init ==
  /\ playlist = <<>>
  /\ playlists = <<>>
  /\ currentPlaylist = NoName
  /\ playlistCounts = << >>
  /\ currentPlaylistRef = NoName
  /\ playlistName = <<>>
  /\ song = <<>>
  /\ emitted = <<ViewPlaylists>>
  /\ viewReqs = {}
  /\ shownFor = NoName
  /\ last = NoDataEvent("mount")
  /\ scn = NoScn
  /\ onlyRefreshes = TRUE
  /\ stale = NoStale
  /\ srvLists = <<>>
  /\ srvSongs = [n \in Names |-> <<>>]
  /\ reqs = {ViewPlaylists}
  /\ net = {}
  /\ ops = 0
  /\ socket = 1
  /\ listeners = {Listener(1, 1)}
  /\ onPlaylistResponseRef = 0
  /\ provider = "PlaylistContext"
  /\ mounted = TRUE
  /\ unsubscribe = Off(1, 1)
  /\ subs = 1
  /\ cancelled = {}
  /\ invoked = {}
  /\ threw = FALSE

\* ------------------------------------------------------ trace variables
\* "The active playlist was deleted, then the catalog was refreshed":
\* stage 1 after a `deleted` event naming the active playlist, stage 2 after
\* the `playlists` event that follows it, stage 3 after the re-render that
\* follows that.  A re-render between the two events keeps stage 1.
\* `fresh` tells whether the selection was rendered when it was deleted.
ScnAfter(ev) ==
  CASE ev.type = "deleted" /\ Truthy(ev.name) /\ ev.name = currentPlaylist
         -> [name |-> ev.name, stage |-> 1,
             fresh |-> (currentPlaylist = currentPlaylistRef)]
    [] ev.type = "playlists" /\ scn.stage = 1
         -> [scn EXCEPT !.stage = 2]
    [] ev.type = "render" /\ scn.stage = 1 -> scn
    [] ev.type = "render" /\ scn.stage = 2
         -> [scn EXCEPT !.stage = 3]
    [] OTHER -> NoScn

\* "A `created` event arrived while other responses were in flight": the
\* name it carried and the responses of that moment not delivered yet.  A
\* `songs` or `playlists` response sent later leaves the record alone; any
\* other notification ends it, and so does the last of the responses.
StaleAfter(ev) ==
  CASE ev.type = "created" /\ Truthy(ev.name)
         -> IF net \ {ev} # {} THEN [name |-> ev.name, pending |-> net \ {ev}]
            ELSE NoStale
    [] ev.type # "created" /\ stale = NoStale -> NoStale
    [] ev.type = "render" /\ stale # NoStale -> stale
    [] ev.type \in {"songs", "playlists"} /\ stale # NoStale
         -> IF stale.pending \ {ev} = {} THEN NoStale
            ELSE [stale EXCEPT !.pending = @ \ {ev}]
    [] OTHER -> NoStale

Track(ev, msgs) ==
  /\ emitted' = msgs
  /\ stale' = StaleAfter(ev)
  /\ viewReqs' = viewReqs \cup ViewedNames(msgs)
  /\ last' = ev
  /\ scn' = ScnAfter(ev)
  /\ onlyRefreshes' = (onlyRefreshes /\ ev.type \in {"playlists", "render"})

\* ------------------------------------------- handlePlaylistResponse cases
\* case "songs", lines 52-68
HandleSongs(ev) ==
  /\ playlist' = ParseSongs(ev.songs)
  /\ playlistCounts' =
       IF currentPlaylistRef # NoName
       THEN SetCount(playlistCounts, currentPlaylistRef, Len(ev.songs))
       ELSE playlistCounts
  /\ shownFor' = ev.for
  /\ UNCHANGED <<playlists, currentPlaylist, currentPlaylistRef>>
  /\ Track(ev, <<>>)

\* case "playlists", lines 70-95
HandlePlaylists(ev) ==
  /\ playlists' = ev.list
  /\ playlistCounts' = SeedAndPrune(playlistCounts, ev.list)
  /\ currentPlaylist' = SelectOnRefresh(currentPlaylistRef, currentPlaylist, ev.list)
  /\ playlist' = SongsOnRefresh(currentPlaylistRef, playlist, ev.list)
  /\ shownFor' = IF playlist' = playlist THEN shownFor ELSE NoName
  /\ UNCHANGED currentPlaylistRef
  /\ Track(ev, <<>>)

\* case "added", lines 97-105
HandleAdded(ev) ==
  /\ playlistCounts' =
       IF currentPlaylistRef # NoName
       THEN SetCount(playlistCounts, currentPlaylistRef,
                     CountOf(playlistCounts, currentPlaylistRef) + 1)
       ELSE playlistCounts
  /\ UNCHANGED <<playlist, playlists, currentPlaylist, currentPlaylistRef, shownFor>>
  /\ Track(ev, <<ViewPlaylists>> \o
                (IF currentPlaylistRef # NoName
                 THEN <<ViewPlaylist(currentPlaylistRef)>> ELSE <<>>))

Max(a, b) == IF a >= b THEN a ELSE b

\* case "removed", lines 107-115
HandleRemoved(ev) ==
  /\ playlistCounts' =
       IF currentPlaylistRef # NoName
       THEN SetCount(playlistCounts, currentPlaylistRef,
                     Max(0, CountOf(playlistCounts, currentPlaylistRef) - 1))
       ELSE playlistCounts
  /\ UNCHANGED <<playlist, playlists, currentPlaylist, currentPlaylistRef, shownFor>>
  /\ Track(ev, (IF currentPlaylistRef # NoName
                 THEN <<ViewPlaylist(currentPlaylistRef)>> ELSE <<>>)
                \o <<ViewPlaylists>>)

\* case "switched", lines 117-123
HandleSwitched(ev) ==
  /\ currentPlaylist' = IF Truthy(ev.name) THEN ev.name ELSE currentPlaylist
  /\ UNCHANGED <<playlist, playlists, playlistCounts, currentPlaylistRef, shownFor>>
  /\ Track(ev, (IF Truthy(ev.name) THEN <<ViewPlaylist(ev.name)>> ELSE <<>>)
                \o <<ViewPlaylists>>)

\* case "created", lines 125-134
HandleCreated(ev) ==
  /\ currentPlaylist' = IF Truthy(ev.name) THEN ev.name ELSE currentPlaylist
  /\ playlistCounts' =
       IF Truthy(ev.name) THEN SetCount(playlistCounts, ev.name, 0) ELSE playlistCounts
  /\ UNCHANGED <<playlist, playlists, currentPlaylistRef, shownFor>>
  /\ Track(ev, <<ViewPlaylists>> \o
                (IF Truthy(ev.name) THEN <<ViewPlaylist(ev.name)>> ELSE <<>>))

\* Lines 136-151 with the fetch of lines 154-155 added: the rendered
\* playlist's songs are requested again after a `deleted` event.
HandleDeletedRefetching(ev) ==
  /\ currentPlaylist' = SelectOnDeleted(currentPlaylistRef, currentPlaylist, ev.name)
  /\ playlist' = IF ev.name = currentPlaylistRef THEN <<>> ELSE playlist
  /\ shownFor' = IF ev.name = currentPlaylistRef THEN NoName ELSE shownFor
  /\ playlistCounts' =
       IF Truthy(ev.name) THEN DeleteCount(playlistCounts, ev.name) ELSE playlistCounts
  /\ UNCHANGED <<playlists, currentPlaylistRef>>
  /\ Track(ev, <<ViewPlaylists>> \o
                (IF currentPlaylistRef # NoName
                 THEN <<ViewPlaylist(currentPlaylistRef)>> ELSE <<>>))

\* case "deleted", lines 136-151
HandleDeleted(ev) ==
  /\ currentPlaylist' = SelectOnDeleted(currentPlaylistRef, currentPlaylist, ev.name)
  /\ playlist' = IF ev.name = currentPlaylistRef THEN <<>> ELSE playlist
  /\ shownFor' = IF ev.name = currentPlaylistRef THEN NoName ELSE shownFor
  /\ playlistCounts' =
       IF Truthy(ev.name) THEN DeleteCount(playlistCounts, ev.name) ELSE playlistCounts
  /\ UNCHANGED <<playlists, currentPlaylistRef>>
  /\ Track(ev, <<ViewPlaylists>>)

\* default, lines 153-155
HandleDefault(ev) ==
  /\ UNCHANGED <<clientVars, shownFor>>
  /\ Track(ev, <<ViewPlaylists>> \o
                (IF currentPlaylistRef # NoName
                 THEN <<ViewPlaylist(currentPlaylistRef)>> ELSE <<>>))

\* line 49: a response that is no object is dropped
HandleNonObject(ev) ==
  /\ UNCHANGED <<clientVars, shownFor>>
  /\ Track(ev, <<>>)

\* line 53 with data that has no map method: the call throws a TypeError
\* before any hook is written
HandleSongsNonArray(ev) ==
  /\ UNCHANGED <<clientVars, shownFor>>
  /\ Track([ev EXCEPT !.throws = TRUE], <<>>)

\* lines 71-94 with data undefined: setPlaylists(undefined) is queued, then
\* playlistList.length (line 83) or playlistList.includes (line 90) throws;
\* the updater of lines 74-80 throws in its turn when React runs it
HandlePlaylistsNonArray(ev) ==
  /\ playlists' = ev.list
  /\ UNCHANGED <<playlist, currentPlaylist, playlistCounts, currentPlaylistRef, shownFor>>
  /\ Track([ev EXCEPT !.throws = TRUE], <<>>)

\* lines 49-156
handlePlaylistResponse(ev) ==
  CASE ~ev.object            -> HandleNonObject(ev)
    [] ev.type = "songs" /\ ~ev.array     -> HandleSongsNonArray(ev)
    [] ev.type = "playlists" /\ ~ev.array -> HandlePlaylistsNonArray(ev)
    [] ev.type = "songs"     -> HandleSongs(ev)
    [] ev.type = "playlists" -> HandlePlaylists(ev)
    [] ev.type = "added"     -> HandleAdded(ev)
    [] ev.type = "removed"   -> HandleRemoved(ev)
    [] ev.type = "switched"  -> HandleSwitched(ev)
    [] ev.type = "created"   -> HandleCreated(ev)
    [] ev.type = "deleted"   -> HandleDeleted(ev)
    [] OTHER                 -> HandleDefault(ev)

\* The optimistic count of `added` grows without limit; the model stops it.
WithinCount(ev) ==
  ev.type = "added" /\ currentPlaylistRef # NoName
    => CountOf(playlistCounts, currentPlaylistRef) < MaxCount

\* ------------------------------------------------------------ re-render
\* A commit after currentPlaylist changed, with the effects it triggers:
\* lines 42-44 refresh the ref, lines 169-172 clear the songs and fetch.
\* A commit that leaves currentPlaylist as it was runs no effect.
RenderEffects ==
  /\ currentPlaylist # currentPlaylistRef
  /\ currentPlaylistRef' = currentPlaylist
  /\ playlist' = <<>>
  /\ shownFor' = NoName
  /\ UNCHANGED <<playlists, currentPlaylist, playlistCounts>>
  /\ Track(NameEvent("render", currentPlaylist),
           IF currentPlaylist # NoName THEN <<ViewPlaylist(currentPlaylist)>> ELSE <<>>)

\* ------------------------------------- Spec: any inbound event, any time
\* A `songs` response answers a pl_view request the client has emitted.
RecvSongs ==
  /\ \E n \in viewReqs, d \in SongLists :
       handlePlaylistResponse(Event("songs", NoData, <<>>, d, n))
  /\ UNCHANGED <<srvVars, uiVars, subVars>>

RecvPlaylists ==
  /\ \E l \in NameLists :
       handlePlaylistResponse(Event("playlists", NoData, l, <<>>, NoName))
  /\ UNCHANGED <<srvVars, uiVars, subVars>>

RecvAdded ==
  /\ WithinCount(NoDataEvent("added"))
  /\ handlePlaylistResponse(NoDataEvent("added"))
  /\ UNCHANGED <<srvVars, uiVars, subVars>>

RecvRemoved ==
  /\ handlePlaylistResponse(NoDataEvent("removed"))
  /\ UNCHANGED <<srvVars, uiVars, subVars>>

RecvSwitched ==
  /\ \E n \in Names \cup {NoData} : handlePlaylistResponse(NameEvent("switched", n))
  /\ UNCHANGED <<srvVars, uiVars, subVars>>

RecvCreated ==
  /\ \E n \in Names \cup {NoData} : handlePlaylistResponse(NameEvent("created", n))
  /\ UNCHANGED <<srvVars, uiVars, subVars>>

RecvDeleted ==
  /\ \E n \in Names \cup {NoData} : handlePlaylistResponse(NameEvent("deleted", n))
  /\ UNCHANGED <<srvVars, uiVars, subVars>>

RecvOther ==
  /\ handlePlaylistResponse(NoDataEvent("other"))
  /\ UNCHANGED <<srvVars, uiVars, subVars>>

Render == RenderEffects /\ UNCHANGED <<srvVars, uiVars, subVars>>

Next ==
  \/ RecvSongs
  \/ RecvPlaylists
  \/ RecvAdded
  \/ RecvRemoved
  \/ RecvSwitched
  \/ RecvCreated
  \/ RecvDeleted
  \/ RecvOther
  \/ Render

Spec == Init /\ [][Next]_vars

\* ------------------------- SpecBad: malformed responses among the events
RecvMalformed ==
  /\ \E ev \in {NullResponse, NonArrayEvent("songs"), NonArrayEvent("playlists")} :
       handlePlaylistResponse(ev)
  /\ UNCHANGED <<srvVars, uiVars, subVars>>

NextBad ==
  \/ RecvMalformed
  \/ RecvSongs
  \/ RecvPlaylists
  \/ RecvAdded
  \/ RecvRemoved
  \/ RecvSwitched
  \/ RecvCreated
  \/ RecvDeleted
  \/ RecvOther
  \/ Render

SpecBad == Init /\ [][NextBad]_vars

\* ------------------------------------------------- commands of the user
\* The click handlers are closures of the last render: the currentPlaylist
\* they read is the committed one, which the ref mirrors (lines 42-44).
renderedPlaylist == currentPlaylistRef

\* A command emits msgs (none when its guard returns early) and writes none
\* of the hooks of lines 33-35 and 38.
Command(type, name, msgs) ==
  /\ emitted' = msgs
  /\ last' = NameEvent(type, name)
  /\ scn' = NoScn
  /\ onlyRefreshes' = FALSE
  /\ UNCHANGED <<clientVars, viewReqs, shownFor, stale>>

\* lines 175-180; text is the name draft the handler reads
handleCreatePlaylist(text) ==
  LET name == Str(Trim(text)) IN
  /\ IF name = NoName
     THEN Command("create", NoData, <<>>) /\ playlistName' = text
     ELSE Command("create", name, <<CreatePlaylist(name)>>) /\ playlistName' = <<>>
  /\ UNCHANGED song

\* lines 182-185
handleSwitchPlaylist(name) ==
  /\ IF name = renderedPlaylist
     THEN Command("switch", name, <<>>)
     ELSE Command("switch", name, <<SwitchPlaylist(name)>>)
  /\ UNCHANGED uiVars

\* lines 187-190; confirmed is the answer to window.confirm
handleRemovePlaylist(name, confirmed) ==
  /\ IF ~confirmed
     THEN Command("remove_playlist", name, <<>>)
     ELSE Command("remove_playlist", name, <<RemovePlaylist(name)>>)
  /\ UNCHANGED uiVars

\* lines 192-197; text is the song draft the handler reads
handleAddSong(text) ==
  LET songInput == Trim(text) IN
  /\ IF songInput = <<>> \/ renderedPlaylist = NoName
     THEN Command("add", NoData, <<>>) /\ song' = text
     ELSE /\ Command("add", renderedPlaylist, <<AddSong(songInput, renderedPlaylist)>>)
          /\ song' = <<>>
  /\ UNCHANGED playlistName

\* lines 199-202
handleRemoveSong(artist, title) ==
  /\ IF renderedPlaylist = NoName
     THEN Command("remove", NoData, <<>>)
     ELSE Command("remove", renderedPlaylist, <<RemoveSong(artist, title)>>)
  /\ UNCHANGED uiVars

\* ------------------------- SpecUI: the user's commands among the events
\* The commands read the drafts, the rendered selection and the displayed
\* songs; `playlists` and `songs` events and the re-render set every
\* combination of these, so SpecUI takes those inbound events only.
\* onChange of the two inputs, lines 230 and 299.
Typed ==
  /\ emitted' = <<>>
  /\ last' = NoDataEvent("type")
  /\ scn' = NoScn
  /\ onlyRefreshes' = FALSE
  /\ UNCHANGED <<clientVars, viewReqs, shownFor, stale, srvVars, subVars>>

TypeName ==
  /\ \E t \in NameTexts \ {playlistName} : playlistName' = t
  /\ UNCHANGED song
  /\ Typed

TypeSong ==
  /\ \E t \in SongTexts \ {song} : song' = t
  /\ UNCHANGED playlistName
  /\ Typed

\* Enter in the name input or the Create button, lines 231 and 237.
ClickCreate == handleCreatePlaylist(playlistName) /\ UNCHANGED <<srvVars, subVars>>

\* line 261: a name of the list
ClickSwitch ==
  /\ \E n \in Range(playlists) : handleSwitchPlaylist(n)
  /\ UNCHANGED <<srvVars, subVars>>

\* lines 273-276
ClickRemovePlaylist ==
  /\ \E n \in Range(playlists), confirmed \in BOOLEAN : handleRemovePlaylist(n, confirmed)
  /\ UNCHANGED <<srvVars, subVars>>

\* Enter in the song input or the Add button, lines 300 and 308.
ClickAddSong == handleAddSong(song) /\ UNCHANGED <<srvVars, subVars>>

\* line 335: a song of the displayed list
ClickRemoveSong ==
  /\ \E i \in 1..Len(playlist) : handleRemoveSong(playlist[i].artist, playlist[i].title)
  /\ UNCHANGED <<srvVars, subVars>>

NextUI ==
  \/ TypeName
  \/ TypeSong
  \/ ClickCreate
  \/ ClickSwitch
  \/ ClickRemovePlaylist
  \/ ClickAddSong
  \/ ClickRemoveSong
  \/ RecvSongs
  \/ RecvPlaylists
  \/ Render

SpecUI == Init /\ [][NextUI]_vars

\* --------------- SpecRaw: the raw-array variant of the Playlist component
\* src/unnamed/part_001 keeps playlist, playlistName, playlists,
\* currentPlaylist and song (lines 28-33), no counts and no ref.  Its click
\* handlers set state themselves; React re-renders right after a click
\* handler, so every handler reads the state as it is.
RawStep(ev, msgs) ==
  /\ emitted' = msgs
  /\ last' = ev
  /\ UNCHANGED <<playlistCounts, currentPlaylistRef, srvVars, subVars>>
  /\ UNCHANGED <<viewReqs, shownFor, scn, onlyRefreshes, stale>>

\* Song objects as the server sends them in an array.
SongObjs == { ParseSong(t) : t \in SongStrs }
SongObjLists == DistinctSeqs(SongObjs)

\* lines 39-56: an array whose first element is a string replaces the
\* catalog, any other array replaces the songs, anything else is dropped.
\* isArray is Array.isArray(data), ofStrings is typeof data[0] === "string".
handleRawResponse(isArray, ofStrings, data) ==
  /\ playlists' = IF isArray /\ Len(data) > 0 /\ ofStrings THEN data ELSE playlists
  /\ playlist' = IF isArray /\ ~(Len(data) > 0 /\ ofStrings) THEN data ELSE playlist
  /\ UNCHANGED <<currentPlaylist, uiVars>>

RecvRawStrings ==
  /\ \E l \in NameLists :
       /\ handleRawResponse(TRUE, l # <<>>, l)
       /\ RawStep(Event("raw_strings", NoData, l, <<>>, NoName), <<>>)

RecvRawObjects ==
  /\ \E l \in SongObjLists :
       /\ handleRawResponse(TRUE, FALSE, l)
       /\ RawStep(Event("raw_objects", NoData, <<>>, l, NoName), <<>>)

RecvRawOther ==
  /\ handleRawResponse(FALSE, FALSE, <<>>)
  /\ RawStep(NoDataEvent("raw_other"), <<>>)

\* line 66
remainingPlaylists(name) == SelectSeq(playlists, LAMBDA p : p # name)

\* lines 63-82 inside the click handler of lines 175-179, whose
\* setCurrentPlaylist("") is applied after those of handleRemovePlaylist.
handleRemovePlaylistRaw(name) ==
  LET remaining == remainingPlaylists(name) IN
  /\ playlists' = remaining
  /\ currentPlaylist' =
       IF name = currentPlaylist THEN NoName
       ELSE IF Len(remaining) > 0 THEN remaining[1] ELSE NoName
  /\ playlist' = IF Len(remaining) > 0 THEN playlist ELSE <<>>
  /\ UNCHANGED uiVars
  /\ RawStep(NameEvent("remove_playlist", name),
             <<RemovePlaylist(name)>>
               \o (IF Len(remaining) > 0
                   THEN <<SwitchPlaylist(remaining[1]), ViewPlaylist(remaining[1])>>
                   ELSE <<>>)
               \o <<ViewPlaylists, ViewPlaylists>>)

\* lines 85-90
handleSwitchPlaylistRaw(name) ==
  /\ currentPlaylist' = name
  /\ UNCHANGED <<playlist, playlists, uiVars>>
  /\ RawStep(NameEvent("switch", name),
             <<SwitchPlaylist(name), ViewPlaylist(name), ViewPlaylists>>)

\* lines 92-99: the draft is used as typed
handleCreatePlaylistRaw ==
  LET name == Str(playlistName) IN
  IF name = NoName
  THEN /\ UNCHANGED <<playlist, playlists, currentPlaylist, uiVars>>
       /\ RawStep(NoDataEvent("create"), <<>>)
  ELSE /\ currentPlaylist' = name
       /\ playlistName' = <<>>
       /\ UNCHANGED <<playlist, playlists, song>>
       /\ RawStep(NameEvent("create", name),
                  <<CreatePlaylist(name), ViewPlaylist(name), ViewPlaylists>>)

\* lines 101-109: the draft is sent as typed and stays in the input
handleAddSongRaw ==
  /\ UNCHANGED <<playlist, playlists, currentPlaylist, uiVars>>
  /\ IF currentPlaylist = NoName \/ song = <<>>
     THEN RawStep(NoDataEvent("add"), <<>>)
     ELSE RawStep(NameEvent("add", currentPlaylist),
                  <<AddSong(song, currentPlaylist), ViewPlaylist(currentPlaylist)>>)

\* lines 110-119: removeSong(song, currentPlaylist) reaches the context as
\* (artist, title)
handleRemoveSongRaw ==
  /\ UNCHANGED <<playlist, playlists, currentPlaylist, playlistName>>
  /\ IF currentPlaylist = NoName \/ song = <<>>
     THEN UNCHANGED song /\ RawStep(NoDataEvent("remove"), <<>>)
     ELSE /\ song' = <<>>
          /\ RawStep(NameEvent("remove", currentPlaylist),
                     <<RemoveSong(song, currentPlaylist), ViewPlaylist(currentPlaylist)>>)

TypeNameRaw ==
  /\ \E t \in NameTexts \ {playlistName} : playlistName' = t
  /\ UNCHANGED <<playlist, playlists, currentPlaylist, song>>
  /\ RawStep(NoDataEvent("type"), <<>>)

TypeSongRaw ==
  /\ \E t \in SongTexts \ {song} : song' = t
  /\ UNCHANGED <<playlist, playlists, currentPlaylist, playlistName>>
  /\ RawStep(NoDataEvent("type"), <<>>)

ClickSwitchRaw == \E n \in Range(playlists) : handleSwitchPlaylistRaw(n)

ClickRemovePlaylistRaw == \E n \in Range(playlists) : handleRemovePlaylistRaw(n)

\* line 207: every displayed song has the button
ClickRemoveSongRaw == playlist # <<>> /\ handleRemoveSongRaw

NextRaw ==
  \/ RecvRawStrings
  \/ RecvRawObjects
  \/ RecvRawOther
  \/ TypeNameRaw
  \/ TypeSongRaw
  \/ handleCreatePlaylistRaw
  \/ ClickSwitchRaw
  \/ ClickRemovePlaylistRaw
  \/ handleAddSongRaw
  \/ ClickRemoveSongRaw

SpecRaw == Init /\ [][NextRaw]_vars

\* --------------------------- SpecSrv: the client against a playlist server
\* The server keeps the catalog and the songs of each playlist, answers
\* every request with one pl_response, and the responses reach the client
\* in any order.
Send(msgs) == reqs' = reqs \cup Range(msgs)

Reply(req, ev) ==
  /\ ev \in net \/ Cardinality(net) < MaxNet
  /\ net' = net \cup {ev}
  /\ reqs' = reqs \ {req}

\* A request naming a playlist the server does not hold gets no answer.
Ignore(req) == reqs' = reqs \ {req} /\ net' = net

Without(l, x) == SelectSeq(l, LAMBDA y : y # x)

CmdCreate ==
  /\ ops < MaxOps
  /\ \E t \in NameTexts : Trim(t) # <<>> /\ handleCreatePlaylist(t)
  /\ Send(emitted')
  /\ ops' = ops + 1
  /\ UNCHANGED <<srvLists, srvSongs, net, subVars>>

CmdSwitch ==
  /\ ops < MaxOps
  /\ \E n \in Range(playlists) \ {renderedPlaylist} : handleSwitchPlaylist(n)
  /\ Send(emitted')
  /\ ops' = ops + 1
  /\ UNCHANGED <<srvLists, srvSongs, net, subVars>>

CmdRemovePlaylist ==
  /\ ops < MaxOps
  /\ \E n \in Range(playlists) : handleRemovePlaylist(n, TRUE)
  /\ Send(emitted')
  /\ ops' = ops + 1
  /\ UNCHANGED <<srvLists, srvSongs, net, subVars>>

CmdAddSong ==
  /\ ops < MaxOps
  /\ renderedPlaylist # NoName
  /\ \E t \in SongStrs : handleAddSong(t)
  /\ Send(emitted')
  /\ ops' = ops + 1
  /\ UNCHANGED <<srvLists, srvSongs, net, subVars>>

SrvViewPlaylists ==
  /\ ViewPlaylists \in reqs
  /\ Reply(ViewPlaylists, Event("playlists", NoData, srvLists, <<>>, NoName))
  /\ UNCHANGED <<clientVars, traceVars, uiVars, subVars, srvLists, srvSongs, ops>>

SrvViewPlaylist ==
  /\ \E r \in reqs :
       /\ r.ev = "pl_view"
       /\ Reply(r, Event("songs", NoData, <<>>,
                         IF r.name \in Range(srvLists) THEN srvSongs[r.name] ELSE <<>>,
                         r.name))
  /\ UNCHANGED <<clientVars, traceVars, uiVars, subVars, srvLists, srvSongs, ops>>

SrvCreate ==
  /\ \E r \in reqs :
       /\ r.ev = "pl_create"
       /\ Reply(r, NameEvent("created", r.name))
       /\ srvLists' = IF r.name \in Range(srvLists) THEN srvLists
                      ELSE Append(srvLists, r.name)
  /\ UNCHANGED <<clientVars, traceVars, uiVars, subVars, srvSongs, ops>>

SrvSwitch ==
  /\ \E r \in reqs :
       /\ r.ev = "pl_switch"
       /\ IF r.name \in Range(srvLists)
          THEN Reply(r, NameEvent("switched", r.name))
          ELSE Ignore(r)
  /\ UNCHANGED <<clientVars, traceVars, uiVars, subVars, srvLists, srvSongs, ops>>

SrvRemovePlaylist ==
  /\ \E r \in reqs :
       /\ r.ev = "pl_remove_playlist"
       /\ Reply(r, NameEvent("deleted", r.name))
       /\ srvLists' = Without(srvLists, r.name)
       /\ srvSongs' = [srvSongs EXCEPT ![r.name] = <<>>]
  /\ UNCHANGED <<clientVars, traceVars, uiVars, subVars, ops>>

SrvAddSong ==
  /\ \E r \in reqs :
       /\ r.ev = "pl_add"
       /\ IF r.name \in Range(srvLists)
          THEN /\ Reply(r, NoDataEvent("added"))
               /\ srvSongs' = [srvSongs EXCEPT ![r.name] =
                                 IF r.song \in Range(@) THEN @ ELSE Append(@, r.song)]
          ELSE Ignore(r) /\ UNCHANGED srvSongs
  /\ UNCHANGED <<clientVars, traceVars, uiVars, subVars, srvLists, ops>>

Deliver ==
  /\ \E ev \in net :
       /\ WithinCount(ev)
       /\ handlePlaylistResponse(ev)
       /\ net' = net \ {ev}
  /\ Send(emitted')
  /\ UNCHANGED <<srvLists, srvSongs, ops, uiVars, subVars>>

RenderSrv ==
  /\ RenderEffects
  /\ Send(emitted')
  /\ UNCHANGED <<srvLists, srvSongs, net, ops, uiVars, subVars>>

NextSrv ==
  \/ CmdCreate
  \/ CmdSwitch
  \/ CmdRemovePlaylist
  \/ CmdAddSong
  \/ SrvViewPlaylists
  \/ SrvViewPlaylist
  \/ SrvCreate
  \/ SrvSwitch
  \/ SrvRemovePlaylist
  \/ SrvAddSong
  \/ Deliver
  \/ RenderSrv

SpecSrv == Init /\ [][NextSrv]_vars

\* ------------------ SpecSub: the subscription to pl_response over time
\* The component is mounted and unmounted (the widget shows it in a tab),
\* the provider's socket appears and is replaced, and pl_response events
\* arrive on the socket in use.  The component is given onPlaylistResponse
\* by PlaylistContext.tsx (lines 67-80) or by useSocketConnection
\* (part_003, line 110).
Providers == {"PlaylistContext", "useSocketConnection"}

InitSub ==
  /\ playlist = <<>>
  /\ playlists = <<>>
  /\ currentPlaylist = NoName
  /\ playlistCounts = << >>
  /\ currentPlaylistRef = NoName
  /\ playlistName = <<>>
  /\ song = <<>>
  /\ emitted = <<>>
  /\ viewReqs = {}
  /\ shownFor = NoName
  /\ last = NoDataEvent("init")
  /\ scn = NoScn
  /\ onlyRefreshes = TRUE
  /\ stale = NoStale
  /\ srvLists = <<>>
  /\ srvSongs = [n \in Names |-> <<>>]
  /\ reqs = {}
  /\ net = {}
  /\ ops = 0
  /\ socket \in {0, 1}
  /\ listeners = {}
  /\ onPlaylistResponseRef = 0
  /\ provider \in Providers
  /\ mounted = FALSE
  /\ unsubscribe = NoOp
  /\ subs = 0
  /\ cancelled = {}
  /\ invoked = {}
  /\ threw = FALSE

\* Lines 67-80 without the socket.on call of line 75.
NoListener(ls, sock, cb) == ls

\* onPlaylistResponse(callback) on socket sock, for subscription number cb:
\* the handlers registered afterwards, the callback the hook keeps, and the
\* value returned.
ListenersOnSubscribe(ls, sock, cb) ==
  IF provider = "PlaylistContext" /\ sock # 0 THEN ls \cup {Listener(sock, cb)} ELSE ls

RefOnSubscribe(cb) == IF provider = "useSocketConnection" THEN cb ELSE onPlaylistResponseRef

onPlaylistResponse(sock, cb) ==
  IF provider = "useSocketConnection" THEN Undefined(cb)
  ELSE IF sock = 0 THEN NoOp ELSE Off(sock, cb)

\* Lines 77-79 without the socket.off call: the handler stays registered.
KeepListeners(ls, u) == ls
\* Calling u: socket.off removes the handler if it is there, () => {} does
\* nothing, and calling undefined throws a TypeError.
ListenersOnUnsubscribe(ls, u) ==
  IF u.kind = "off" THEN ls \ {Listener(u.sock, u.cb)} ELSE ls

Throws(u) == u.kind = "undefined"

CancelledBy(u) == IF u.cb # 0 THEN {u.cb} ELSE {}

\* socket?.emit, PlaylistContext.tsx lines 27-65: nothing leaves without a socket.
EmitOn(sock, msgs) == IF sock # 0 THEN msgs ELSE <<>>

\* The requests that wait for an answer: those emitted on the socket in
\* use.  What was sent on a socket that has been replaced is answered to
\* nobody.
SubStep(ev, msgs) ==
  /\ Track(ev, msgs)
  /\ reqs' = IF ev.type = "socket" THEN Range(msgs) ELSE reqs \cup Range(msgs)
  /\ UNCHANGED <<srvLists, srvSongs, net, ops, uiVars, provider>>

\* Mount: fresh hooks, then the effect of lines 162-166.
Mount ==
  /\ ~mounted
  /\ subs < MaxSubs
  /\ mounted' = TRUE
  /\ subs' = subs + 1
  /\ playlist' = <<>>
  /\ playlists' = <<>>
  /\ currentPlaylist' = NoName
  /\ playlistCounts' = << >>
  /\ currentPlaylistRef' = NoName
  /\ shownFor' = NoName
  /\ listeners' = ListenersOnSubscribe(listeners, socket, subs + 1)
  /\ onPlaylistResponseRef' = RefOnSubscribe(subs + 1)
  /\ unsubscribe' = onPlaylistResponse(socket, subs + 1)
  /\ invoked' = {}
  /\ UNCHANGED <<socket, cancelled, threw>>
  /\ SubStep(NoDataEvent("mount"), EmitOn(socket, <<ViewPlaylists>>))

\* Unmount: the cleanup of line 165 calls unsubscribe.
Unmount ==
  /\ mounted
  /\ mounted' = FALSE
  /\ listeners' = ListenersOnUnsubscribe(listeners, unsubscribe)
  /\ cancelled' = cancelled \cup CancelledBy(unsubscribe)
  /\ threw' = (threw \/ Throws(unsubscribe))
  /\ invoked' = {}
  /\ UNCHANGED <<clientVars, shownFor, socket, onPlaylistResponseRef, unsubscribe, subs>>
  /\ SubStep(NoDataEvent("unmount"), <<>>)

\* A further call of the unsubscribe function after the teardown.
UnsubscribeAgain ==
  /\ ~mounted
  /\ subs > 0
  /\ listeners' = ListenersOnUnsubscribe(listeners, unsubscribe)
  /\ cancelled' = cancelled \cup CancelledBy(unsubscribe)
  /\ threw' = (threw \/ Throws(unsubscribe))
  /\ invoked' = {}
  /\ UNCHANGED <<clientVars, shownFor, socket, onPlaylistResponseRef, mounted,
                 unsubscribe, subs>>
  /\ SubStep(NoDataEvent("unsubscribe"), <<>>)

\* The provider gets a socket, or replaces it (the old one is closed).  The
\* provider re-renders, its functions are new ones, and a mounted component
\* runs the effect of lines 162-166 again: cleanup first, then the body.
\* useSocketConnection creates its socket once, before a component mounts.
SocketChange ==
  /\ socket < MaxSockets
  /\ socket' = socket + 1
  /\ IF mounted /\ provider = "PlaylistContext"
     THEN /\ subs < MaxSubs
          /\ subs' = subs + 1
          /\ listeners' = ListenersOnSubscribe(
                            ListenersOnUnsubscribe(listeners, unsubscribe),
                            socket', subs + 1)
          /\ cancelled' = cancelled \cup CancelledBy(unsubscribe)
          /\ unsubscribe' = onPlaylistResponse(socket', subs + 1)
          /\ SubStep(NoDataEvent("socket"), EmitOn(socket', <<ViewPlaylists>>))
     ELSE /\ ~mounted
          /\ UNCHANGED <<subs, listeners, cancelled, unsubscribe>>
          /\ SubStep(NoDataEvent("socket"), <<>>)
  /\ invoked' = {}
  /\ UNCHANGED <<clientVars, shownFor, onPlaylistResponseRef, mounted, threw>>

\* The provider re-renders with the socket it had (its functions are
\* re-created on every render, PlaylistContext.tsx lines 27-80), so the
\* effect of lines 162-166 runs again: cleanup first, then the body.  With
\* useSocketConnection the cleanup calls undefined and throws, as Unmount
\* shows; the model does not follow that component past the throw.
Resubscribe ==
  /\ mounted
  /\ provider = "PlaylistContext"
  /\ subs < MaxSubs
  /\ subs' = subs + 1
  /\ listeners' = ListenersOnSubscribe(
                    ListenersOnUnsubscribe(listeners, unsubscribe),
                    socket, subs + 1)
  /\ cancelled' = cancelled \cup CancelledBy(unsubscribe)
  /\ unsubscribe' = onPlaylistResponse(socket, subs + 1)
  /\ invoked' = {}
  /\ UNCHANGED <<clientVars, shownFor, socket, onPlaylistResponseRef, mounted, threw>>
  /\ SubStep(NoDataEvent("resubscribe"), EmitOn(socket, <<ViewPlaylists>>))

\* The callbacks a pl_response on the socket in use reaches: those of the
\* handlers registered on it (PlaylistContext.tsx lines 70-75), or the one
\* the hook keeps (part_003 lines 57-59).
Reached ==
  IF provider = "PlaylistContext"
  THEN { l.cb : l \in { k \in listeners : k.sock = socket } }
  ELSE { onPlaylistResponseRef } \ {0}

\* A catalog arrives, the answer to the catalog request if one is waiting.
\* The callback of the live subscription updates the hooks; a setState of an
\* unmounted component changes nothing.
RecvSub ==
  /\ socket # 0
  /\ invoked' = Reached
  /\ \E l \in NameLists :
       LET ev == Event("playlists", NoData, l, <<>>, NoName) IN
       IF mounted /\ subs \in Reached
       THEN handlePlaylistResponse(ev)
       ELSE UNCHANGED <<clientVars, shownFor>> /\ Track(ev, <<>>)
  /\ reqs' = reqs \ {ViewPlaylists}
  /\ UNCHANGED <<srvLists, srvSongs, net, ops, uiVars, provider>>
  /\ UNCHANGED <<socket, listeners, onPlaylistResponseRef, mounted, unsubscribe,
                 subs, cancelled, threw>>

RenderSub ==
  /\ mounted
  /\ RenderEffects
  /\ invoked' = {}
  /\ UNCHANGED <<srvVars, uiVars>>
  /\ UNCHANGED <<socket, listeners, onPlaylistResponseRef, provider, mounted,
                 unsubscribe, subs, cancelled, threw>>

NextSub ==
  \/ Mount
  \/ Unmount
  \/ UnsubscribeAgain
  \/ SocketChange
  \/ Resubscribe
  \/ RecvSub
  \/ RenderSub

SpecSub == InitSub /\ [][NextSub]_vars

\* ------------- SpecParse: a `songs` response with any song texts in it
\* The strings of a `songs` response are whatever the server holds: letters,
\* blanks and colons in any arrangement.  The component has selected and
\* rendered playlist A and asked for its songs; the response is in flight.
Chars == {"a", " ", ":"}
Texts == SeqsUpTo(Chars, MaxLen)
\* A playlist holds a song text at most once.
Distinct(l) == \A i, j \in 1..Len(l) : i # j => l[i] # l[j]

InitParse ==
  /\ playlist = <<>>
  /\ playlists = <<"A">>
  /\ currentPlaylist = "A"
  /\ playlistCounts = SetCount(<< >>, "A", 0)
  /\ currentPlaylistRef = "A"
  /\ playlistName = <<>>
  /\ song = <<>>
  /\ emitted = <<ViewPlaylist("A")>>
  /\ viewReqs = {"A"}
  /\ shownFor = NoName
  /\ last = NameEvent("render", "A")
  /\ scn = NoScn
  /\ onlyRefreshes = TRUE
  /\ stale = NoStale
  /\ \E k \in 0..MaxSongs : \E d \in [1..k -> Texts] :
       /\ Distinct(d)
       /\ srvLists = <<"A">>
       /\ srvSongs = [n \in Names |-> IF n = "A" THEN d ELSE <<>>]
       /\ net = {Event("songs", NoData, <<>>, d, "A")}
  /\ reqs = {}
  /\ ops = 0
  /\ socket = 1
  /\ listeners = {Listener(1, 1)}
  /\ onPlaylistResponseRef = 0
  /\ provider = "PlaylistContext"
  /\ mounted = TRUE
  /\ unsubscribe = Off(1, 1)
  /\ subs = 1
  /\ cancelled = {}
  /\ invoked = {}
  /\ threw = FALSE

NextParse == Deliver

SpecParse == InitParse /\ [][NextParse]_vars
\* ================================================================ claims
HasView(msgs) == \E i \in 1..Len(msgs) : msgs[i].ev = "pl_view"

\* C1: after any sequence of `playlists` events (re-rendered in between or
\* not), the active playlist name is empty or a member of the latest list.
C1_ActiveInLatestCatalog ==
  onlyRefreshes => (currentPlaylist = NoName \/ currentPlaylist \in Range(playlists))

\* C2: once the selection is rendered (the effect of lines 169-172 has
\* cleared the old songs), the displayed song list is empty or came from a
\* `songs` response requested for the playlist that is active now (the
\* songs section is drawn only while a playlist is active, line 288).
C2_SongsBelongToActive ==
  (currentPlaylist = currentPlaylistRef /\ currentPlaylist # NoName /\ playlist # <<>>)
    => shownFor = currentPlaylist

\* C3: a handler that runs right after a `switched` or `created` event naming
\* X works on X: `songs` sets X's count, `added` and `removed` adjust X's
\* count, `deleted` of X clears the selection.
C3_HandlerSeesLatestActive ==
  [][ (last.type \in {"switched", "created"} /\ Truthy(last.name))
      => /\ last'.type = "songs"
             => /\ last.name \in DOMAIN playlistCounts'
                /\ playlistCounts'[last.name] = Len(last'.songs)
         /\ last'.type = "added"
             => /\ last.name \in DOMAIN playlistCounts'
                /\ playlistCounts'[last.name] = CountOf(playlistCounts, last.name) + 1
         /\ last'.type = "removed"
             => /\ last.name \in DOMAIN playlistCounts'
                /\ playlistCounts'[last.name]
                     = Max(0, CountOf(playlistCounts, last.name) - 1)
         /\ (last'.type = "deleted" /\ last'.name = last.name)
             => currentPlaylist' = NoName
    ]_vars

C5_AddedBumpsActiveByOne ==
  [][ (last'.type = "added" /\ currentPlaylist # NoName)
      => /\ currentPlaylist \in DOMAIN playlistCounts'
         /\ playlistCounts'[currentPlaylist]
              = CountOf(playlistCounts, currentPlaylist) + 1
         /\ \A n \in Names \ {currentPlaylist} :
              /\ (n \in DOMAIN playlistCounts') = (n \in DOMAIN playlistCounts)
              /\ CountOf(playlistCounts', n) = CountOf(playlistCounts, n)
    ]_vars

\* The same when the selection is rendered, that is when the ref is current:
\* this holds, so C5 fails through the stale ref of C3 alone.
AddedBumpsRenderedByOne ==
  [][ (last'.type = "added" /\ currentPlaylist # NoName
         /\ currentPlaylist = currentPlaylistRef)
      => /\ currentPlaylist \in DOMAIN playlistCounts'
         /\ playlistCounts'[currentPlaylist]
              = CountOf(playlistCounts, currentPlaylist) + 1
         /\ \A n \in Names \ {currentPlaylist} :
              /\ (n \in DOMAIN playlistCounts') = (n \in DOMAIN playlistCounts)
              /\ CountOf(playlistCounts', n) = CountOf(playlistCounts, n)
    ]_vars

\* C6: a `songs` event handled while a playlist is active sets that
\* playlist's count to the payload's length and shows the parsed payload.
C6_SongsOverwriteActiveCount ==
  [][ (last'.type = "songs" /\ currentPlaylist # NoName)
      => /\ currentPlaylist \in DOMAIN playlistCounts'
         /\ playlistCounts'[currentPlaylist] = Len(last'.songs)
         /\ Len(playlist') = Len(last'.songs)
         /\ \A i \in 1..Len(playlist') : playlist'[i] = ParseSong(last'.songs[i])
    ]_vars

\* The same when the selection is rendered: this holds, so C6 fails through
\* the stale ref of C3 alone.
SongsOverwriteRenderedCount ==
  [][ (last'.type = "songs" /\ currentPlaylist # NoName
         /\ currentPlaylist = currentPlaylistRef)
      => /\ currentPlaylist \in DOMAIN playlistCounts'
         /\ playlistCounts'[currentPlaylist] = Len(last'.songs)
         /\ Len(playlist') = Len(last'.songs)
         /\ \A i \in 1..Len(playlist') : playlist'[i] = ParseSong(last'.songs[i])
    ]_vars

\* C7: when nothing is in flight and the selection is rendered, the client
\* holds the server's catalog and, for the active playlist, the server's
\* songs and their number.
Quiet == reqs = {} /\ net = {} /\ currentPlaylist = currentPlaylistRef

C7_QuietAgreesWithServer ==
  Quiet
    => /\ playlists = srvLists
       /\ currentPlaylist # NoName
            => /\ currentPlaylist \in Range(srvLists)
               /\ playlist = ParseSongs(srvSongs[currentPlaylist])
               /\ CountOf(playlistCounts, currentPlaylist)
                    = Len(srvSongs[currentPlaylist])

\* C8: the active playlist was deleted and the following refresh lists other
\* playlists: the first of them is active, and its songs are requested.
C8_DeletedActiveMovesToFirst ==
  (scn.stage \in {2, 3} /\ playlists # <<>> /\ scn.name \notin Range(playlists))
    => /\ currentPlaylist = playlists[1]
       /\ scn.stage = 3 => ViewPlaylist(playlists[1]) \in Range(emitted)

\* The same when the deleted selection was rendered: this holds, so C8 fails
\* through the stale ref of C3 alone.
DeletedRenderedMovesToFirst ==
  (scn.fresh /\ scn.stage \in {2, 3} /\ playlists # <<>>
     /\ scn.name \notin Range(playlists))
    => /\ currentPlaylist = playlists[1]
       /\ scn.stage = 3 => ViewPlaylist(playlists[1]) \in Range(emitted)

\* C9: the only playlist was deleted (the following refresh is empty): no
\* selection, no songs shown, no pl_view emitted.
C9_DeletedLastEndsEmpty ==
  (scn.stage \in {2, 3} /\ playlists = <<>>)
    => /\ currentPlaylist = NoName
       /\ playlist = <<>>
       /\ ~HasView(emitted)

\* The same when the deleted selection was rendered: this holds, so C9 fails
\* through the stale ref of C3 alone.
DeletedRenderedLastEndsEmpty ==
  (scn.fresh /\ scn.stage \in {2, 3} /\ playlists = <<>>)
    => /\ currentPlaylist = NoName
       /\ playlist = <<>>
       /\ ~HasView(emitted)

C11_RefreshMovesOnlyMissingActive ==
  [][ last'.type = "playlists"
      => /\ currentPlaylist' # currentPlaylist
              => \/ /\ currentPlaylist = NoName
                    /\ last'.list # <<>>
                    /\ currentPlaylist' = last'.list[1]
                 \/ /\ currentPlaylist # NoName
                    /\ currentPlaylist \notin Range(last'.list)
                    /\ currentPlaylist' =
                         IF last'.list # <<>> THEN last'.list[1] ELSE NoName
                    /\ playlist' = <<>>
         /\ (currentPlaylist # NoName /\ currentPlaylist \in Range(last'.list))
              => /\ currentPlaylist' = currentPlaylist
                 /\ playlist' = playlist
    ]_vars

\* The same when the selection is rendered: this holds, so C11 fails through
\* the stale ref of C3 alone.
RefreshMovesOnlyMissingRendered ==
  [][ (last'.type = "playlists" /\ currentPlaylist = currentPlaylistRef)
      => /\ currentPlaylist' # currentPlaylist
              => \/ /\ currentPlaylist = NoName
                    /\ last'.list # <<>>
                    /\ currentPlaylist' = last'.list[1]
                 \/ /\ currentPlaylist # NoName
                    /\ currentPlaylist \notin Range(last'.list)
                    /\ currentPlaylist' =
                         IF last'.list # <<>> THEN last'.list[1] ELSE NoName
                    /\ playlist' = <<>>
         /\ (currentPlaylist # NoName /\ currentPlaylist \in Range(last'.list))
              => /\ currentPlaylist' = currentPlaylist
                 /\ playlist' = playlist
    ]_vars

Mutations == {"added", "removed", "created", "deleted"}

\* C12 as stated, for a rendered selection and well-formed events: a step
\* that handles an `added` or `removed` event, or a `created` or `deleted`
\* event carrying a name, emits pl_view_playlists and, when a playlist is
\* active after the step, pl_view for that playlist.
C12_MutationRefetchesBoth ==
  [][ ( /\ last'.type \in Mutations
        /\ last'.type \in {"created", "deleted"} => Truthy(last'.name)
        /\ currentPlaylist = currentPlaylistRef )
      => /\ ViewPlaylists \in Range(emitted')
         /\ currentPlaylist' # NoName
              => ViewPlaylist(currentPlaylist') \in Range(emitted')
    ]_vars

\* C12 amended: every such step emits pl_view_playlists; `added` and
\* `removed` also emit pl_view for the rendered selection (the ref) when
\* there is one, `created` emits pl_view for the name it carries, and
\* `deleted` emits no pl_view at all.  So with the selection rendered, the
\* active playlist's songs are requested after `added`, `removed` and a
\* `created` that carries a name.
C12_MutationRefetchesCatalog ==
  [][ last'.type \in Mutations
      => /\ ViewPlaylists \in Range(emitted')
         /\ last'.type \in {"added", "removed"}
              => ViewedNames(emitted') = {currentPlaylistRef} \ {NoName}
         /\ last'.type = "created"
              => ViewedNames(emitted') = {last'.name} \ {NoData}
         /\ last'.type = "deleted" => ~HasView(emitted')
         /\ ( /\ currentPlaylist' # NoName
              /\ \/ last'.type \in {"added", "removed"}
                      /\ currentPlaylist = currentPlaylistRef
                 \/ last'.type = "created" /\ Truthy(last'.name) )
              => ViewPlaylist(currentPlaylist') \in Range(emitted')
    ]_vars

\* A playlist other than the rendered selection was deleted.
C12_Witness ==
  /\ last.type = "deleted"
  /\ Truthy(last.name)
  /\ currentPlaylist # NoName
  /\ currentPlaylist = currentPlaylistRef
  /\ last.name # currentPlaylist
  /\ playlist # <<>>
  /\ emitted = <<ViewPlaylists>>

Emits(msgs, ev) == \E i \in 1..Len(msgs) : msgs[i].ev = ev

\* The hooks of both variants of the component.
sessionVars == <<playlist, playlists, currentPlaylist, playlistCounts>>

\* C13: a switch requested to the playlist that is already active emits no
\* pl_switch and changes no state.
C13_SwitchToActiveIsNoOp ==
  [][ (last'.type = "switch" /\ last'.name = currentPlaylist)
      => /\ ~Emits(emitted', "pl_switch")
         /\ UNCHANGED <<sessionVars, uiVars>>
    ]_vars

\* In the typed-event variant the guard of line 183 does this for the
\* rendered selection: this holds under SpecUI.
SwitchToRenderedIsNoOp ==
  [][ (last'.type = "switch" /\ last'.name = renderedPlaylist)
      => /\ emitted' = <<>>
         /\ UNCHANGED <<clientVars, uiVars>>
    ]_vars

\* C14: no call of the unsubscribe function throws, with or without a
\* socket, and no pl_response invokes a callback whose unsubscribe function
\* has been called.
C14_UnsubscribeIsSafe == ~threw /\ invoked \cap cancelled = {}

\* With the onPlaylistResponse of PlaylistContext.tsx this holds.
ContextUnsubscribeIsSafe ==
  provider = "PlaylistContext" => (~threw /\ invoked \cap cancelled = {})

KnownTypes == {"songs", "playlists", "added", "removed", "switched", "created", "deleted"}

Malformed(ev) ==
  \/ ~ev.object
  \/ ev.type \in {"songs", "playlists"} /\ ~ev.array
  \/ ev.type \notin KnownTypes \cup {"render"}

\* C15: handling a malformed response (no object, unknown type, `songs` or
\* `playlists` without an array) throws nothing, leaves playlists, selection,
\* songs and counts as they were, and emits pl_view_playlists, plus pl_view
\* for the active playlist when there is one.
C15_MalformedFallsBackToRefresh ==
  [][ Malformed(last')
      => /\ ~last'.throws
         /\ UNCHANGED sessionVars
         /\ ViewPlaylists \in Range(emitted')
         /\ currentPlaylist # NoName
              => ViewPlaylist(currentPlaylist) \in Range(emitted')
    ]_vars

\* Of the malformed responses only the unknown type falls back to a refresh,
\* for the rendered selection: this holds under SpecBad.
UnknownTypeRefreshesRendered ==
  [][ (last'.object /\ last'.type \notin KnownTypes \cup {"render"})
      => /\ ~last'.throws
         /\ UNCHANGED sessionVars
         /\ emitted' = <<ViewPlaylists>> \o
                        (IF currentPlaylistRef # NoName
                         THEN <<ViewPlaylist(currentPlaylistRef)>> ELSE <<>>)
    ]_vars

CommandTypes == {"create", "switch", "remove_playlist", "add", "remove"}

Corresponding ==
  [create |-> "pl_create", switch |-> "pl_switch",
   remove_playlist |-> "pl_remove_playlist", add |-> "pl_add", remove |-> "pl_remove"]

OnlyEmits(msgs, ev) == \A i \in 1..Len(msgs) : msgs[i].ev = ev

\* C16: a command (create, switch, remove-playlist, add-song, remove-song)
\* leaves playlists, selection, songs and counts as they were and emits
\* nothing but its own message; so does typing into the inputs.
C16_CommandsOnlyEmit ==
  [][ /\ last'.type \in CommandTypes
           => /\ UNCHANGED sessionVars
              /\ OnlyEmits(emitted', Corresponding[last'.type])
      /\ last'.type = "type" => UNCHANGED sessionVars /\ emitted' = <<>>
    ]_vars

\* The commands of the typed-event variant do: the same formula for the
\* steps of SpecUI, where it holds.
TypedCommandsOnlyEmit ==
  [][ last'.type \in CommandTypes
      => /\ UNCHANGED <<sessionVars, currentPlaylistRef>>
         /\ OnlyEmits(emitted', Corresponding[last'.type])
         /\ Len(emitted') <= 1
    ]_vars

Count(msgs, ev) == Cardinality({ i \in 1..Len(msgs) : msgs[i].ev = ev })

\* C17: a create command whose name draft is empty after trimming emits no
\* pl_create and changes no state; any other draft makes it emit exactly one
\* pl_create, which carries the trimmed name.
C17_CreateTrimsAndGuards ==
  [][ last'.type = "create"
      => IF Trim(playlistName) = <<>>
         THEN /\ ~Emits(emitted', "pl_create")
              /\ UNCHANGED <<sessionVars, uiVars>>
         ELSE /\ Count(emitted', "pl_create") = 1
              /\ \A i \in 1..Len(emitted') :
                   emitted'[i].ev = "pl_create"
                     => emitted'[i].name = Str(Trim(playlistName))
    ]_vars

\* C18: while no playlist is active, add-song and remove-song emit nothing;
\* add-song emits nothing either when its draft is empty after trimming; and
\* a pl_add that is emitted names the active playlist.
C18_SongCommandsNeedActive ==
  [][ last'.type \in {"add", "remove"}
      => /\ currentPlaylist = NoName => emitted' = <<>>
         /\ (last'.type = "add" /\ Trim(song) = <<>>) => emitted' = <<>>
         /\ \A i \in 1..Len(emitted') :
              emitted'[i].ev = "pl_add" => emitted'[i].name = currentPlaylist
    ]_vars

\* The typed-event variant does this for the rendered selection: this holds
\* under SpecUI.
SongCommandsNeedRendered ==
  [][ last'.type \in {"add", "remove"}
      => /\ renderedPlaylist = NoName => emitted' = <<>>
         /\ (last'.type = "add" /\ Trim(song) = <<>>) => emitted' = <<>>
         /\ \A i \in 1..Len(emitted') :
              emitted'[i].ev = "pl_add"
                => /\ emitted'[i].name = renderedPlaylist
                   /\ emitted'[i].song = Trim(song)
    ]_vars

\* C19: every count is a non-negative integer, and a `removed` event handled
\* while a playlist is active lowers that playlist's count by exactly 1 when
\* it is positive and leaves it at 0 when it is 0 or missing (a missing
\* count reads as 0).
C19_RemovedLowersActiveFlooredAtZero ==
  [][ /\ \A k \in DOMAIN playlistCounts' : playlistCounts'[k] \in Nat
      /\ (last'.type = "removed" /\ currentPlaylist # NoName)
           => CountOf(playlistCounts', currentPlaylist)
                = Max(0, CountOf(playlistCounts, currentPlaylist) - 1)
    ]_vars

\* The first half alone is an invariant of Spec.
CountsAreNatural == \A k \in DOMAIN playlistCounts : playlistCounts[k] \in Nat

\* The second half when the selection is rendered: this holds, so C19 fails
\* through the stale ref of C3 alone.
RemovedLowersRenderedFlooredAtZero ==
  [][ (last'.type = "removed" /\ currentPlaylist # NoName
         /\ currentPlaylist = currentPlaylistRef)
      => /\ currentPlaylist \in DOMAIN playlistCounts'
         /\ playlistCounts'[currentPlaylist]
              = Max(0, CountOf(playlistCounts, currentPlaylist) - 1)
         /\ \A n \in Names \ {currentPlaylist} :
              /\ (n \in DOMAIN playlistCounts') = (n \in DOMAIN playlistCounts)
              /\ CountOf(playlistCounts', n) = CountOf(playlistCounts, n)
    ]_vars

IsTrimOf(t, u) ==
  \E i \in 1..(Len(u) + 1), j \in 0..Len(u) :
    /\ t = SubSeq(u, i, j)
    /\ \A k \in 1..(i - 1) : u[k] = " "
    /\ \A k \in (j + 1)..Len(u) : u[k] = " "
    /\ t # <<>> => t[1] # " " /\ t[Len(t)] # " "

\* o is the song the text s stands for: split at the first colon.
Parsed(s, o) ==
  IF \A k \in 1..Len(s) : s[k] # ":"
  THEN o.artist = <<>> /\ IsTrimOf(o.title, s)
  ELSE \E k \in 1..Len(s) :
         /\ s[k] = ":"
         /\ \A j \in 1..(k - 1) : s[j] # ":"
         /\ IsTrimOf(o.artist, SubSeq(s, 1, k - 1))
         /\ IsTrimOf(o.title, SubSeq(s, k + 1, Len(s)))

\* C22: after a `songs` event the displayed list has one song per received
\* text, in the same order; each song's artist is the trimmed text before
\* the first colon and its title the trimmed text after it, later colons
\* included; a text without a colon gives an empty artist and the trimmed
\* text as title.
C22_ParseSplitsAtFirstColon ==
  last.type = "songs"
    => /\ Len(playlist) = Len(last.songs)
       /\ \A i \in 1..Len(last.songs) : Parsed(last.songs[i], playlist[i])

\* Two texts were parsed in order: one with two colons and a blank, one
\* without a colon and with a blank in front.
C22_Witness ==
  /\ last.type = "songs"
  /\ last.songs = << <<"a", ":", ":">>, <<" ", "a">> >>
  /\ playlist = << [artist |-> <<"a">>, title |-> <<":">>],
                   [artist |-> <<>>, title |-> <<"a">>] >>

\* ------------------------------------------------------------------- C23
\* C23: a `deleted` event that names a playlist other than the active one
\* leaves the active playlist, the displayed songs and the catalog as they
\* are and removes only the named playlist's count entry, also right after
\* a `switched` or `created` event that moved the selection elsewhere.
C23_DeletedOtherKeepsSelection ==
  [][ (last'.type = "deleted" /\ Truthy(last'.name) /\ last'.name # currentPlaylist)
      => /\ currentPlaylist' = currentPlaylist
         /\ playlist' = playlist
         /\ playlists' = playlists
         /\ playlistCounts' = DeleteCount(playlistCounts, last'.name) ]_vars

\* The same for a selection that has been rendered.
DeletedOtherKeepsRendered ==
  [][ (last'.type = "deleted" /\ Truthy(last'.name) /\ last'.name # currentPlaylist
       /\ currentPlaylist = currentPlaylistRef)
      => /\ currentPlaylist' = currentPlaylist
         /\ playlist' = playlist
         /\ playlists' = playlists
         /\ playlistCounts' = DeleteCount(playlistCounts, last'.name) ]_vars

\* ------------------------------------------------------------------- C24
\* What the `created` event itself does: the playlist it names becomes the
\* active one, its count is 0, and the catalog and its songs are requested.
CreatedActivates ==
  (last'.type = "created" /\ Truthy(last'.name))
    => /\ currentPlaylist' = last'.name
       /\ CountOf(playlistCounts', last'.name) = 0
       /\ last'.name \in DOMAIN playlistCounts'
       /\ Emits(emitted', "pl_view_playlists")
       /\ ViewPlaylist(last'.name) \in Range(emitted')

\* The step that delivers the last of the responses that were in flight when
\* a `created` event arrived, no other notification having come in between.
LastPendingDelivered ==
  /\ stale # NoStale
  /\ stale' = NoStale
  /\ last'.type \in {"songs", "playlists"}

\* C24: a `created` event with a name N makes N the active playlist, sets
\* its count to 0 and emits pl_view_playlists and pl_view for N; and when
\* the last response that was in flight at that moment has been delivered,
\* N, which the server still holds, is still the active playlist.
C24_CreatedStaysActive ==
  [][ /\ CreatedActivates
      /\ (LastPendingDelivered /\ stale.name \in Range(srvLists))
           => currentPlaylist' = stale.name ]_vars

\* The first half alone.
CreatedActivatesAndFetches == [][CreatedActivates]_vars

\* ------------------------------------------------------------------- C25
\* The callbacks of the component that are registered for pl_response, on
\* any socket.
Registered ==
  IF provider = "PlaylistContext"
  THEN { l.cb : l \in listeners }
  ELSE { onPlaylistResponseRef } \ {0}

\* C25: while the component is mounted and the provider has a socket, one
\* callback of the component is registered, that of its latest subscription,
\* and it is on the socket in use; an inbound event invokes that callback
\* and no other, and the component's state after the event is the handler's
\* result for it.
C25_OneCallbackOncePerEvent ==
  [][ (mounted' /\ socket' # 0)
      => /\ Registered' = {subs'}
         /\ Reached' = {subs'}
         /\ last'.type = "playlists"
              => /\ invoked' = {subs'}
                 /\ playlists' = last'.list ]_vars

\* An event reached the component after its subscription effect had run
\* again.
C25_Witness ==
  /\ mounted
  /\ socket # 0
  /\ provider = "PlaylistContext"
  /\ last.type = "playlists"
  /\ last.list # <<>>
  /\ playlists = last.list
  /\ invoked = {subs}
  /\ cancelled # {}

\* ------------------------------------------------------------------- C26
\* C26: the mount effect subscribes and then emits pl_view_playlists, so
\* the component's callback is registered on the socket in use whenever the
\* request leaves, and the answer to it, arriving at the mounted component,
\* finds that callback subscribed and is handled by it.
C26_SubscribedBeforeInitialFetch ==
  [][ /\ (last'.type = "mount" /\ Emits(emitted', "pl_view_playlists"))
           => Reached' = {subs'}
      /\ (mounted' /\ ViewPlaylists \in reqs') => Reached' = {subs'}
      /\ (last'.type = "playlists" /\ mounted /\ ViewPlaylists \in reqs)
           => /\ invoked' = {subs}
              /\ playlists' = last'.list ]_vars

\* The answer to the catalog request of the first mount has been handled.
C26_Witness ==
  /\ last.type = "playlists"
  /\ mounted
  /\ subs = 1
  /\ cancelled = {}
  /\ invoked = {1}
  /\ reqs = {}
  /\ playlists = last.list
  /\ playlists # <<>>

\* ------------------------------------------------------------------- C27
\* Raw responses by what they are: "raw_strings" is a catalog (an array of
\* names, possibly empty), "raw_objects" a song list, "raw_other" no array.
\* By shape, an array is taken for a catalog when it is non-empty and its
\* first element is a string.
RawTypes == {"raw_strings", "raw_objects", "raw_other"}

LooksLikeCatalog(ev) == ev.type = "raw_strings" /\ ev.list # <<>>

RawData(ev) == IF ev.type = "raw_strings" THEN ev.list ELSE ev.songs

\* What the shape of a raw response decides.
RoutedByShape ==
  last'.type \in RawTypes
    => /\ playlists' = playlists \/ playlist' = playlist
       /\ (last'.type # "raw_other" /\ LooksLikeCatalog(last'))
            => playlists' = RawData(last') /\ playlist' = playlist
       /\ (last'.type # "raw_other" /\ ~LooksLikeCatalog(last'))
            => playlist' = RawData(last') /\ playlists' = playlists
       /\ last'.type = "raw_other" => UNCHANGED <<playlist, playlists>>

\* C27: in the raw-array variant a response changes at most one list, chosen
\* by its shape, and so a catalog response is stored as the catalog and a
\* song-list response as the song list.
C27_RawResponseStoredByKind ==
  [][ /\ RoutedByShape
      /\ last'.type = "raw_strings"
           => playlists' = last'.list /\ playlist' = playlist
      /\ last'.type = "raw_objects"
           => playlist' = last'.songs /\ playlists' = playlists ]_vars

\* The first half alone.
RawResponseRoutedByShape == [][RoutedByShape]_vars

====
